---- MODULE Spec2Model ----
(***************************************************************************)
(* Model of the temperature bot: the Slack message handler, the poll it    *)
(* opens, the threading.Timer that completes the poll, the phone call that *)
(* an approved poll places, and the call cooldown kept in memory and in    *)
(* the .last_call_time file.                                               *)
(*                                                                         *)
(* Threads: message handlers (Bolt runs listeners on a thread pool) and    *)
(* one timer thread per scheduled poll.  A step of the model is a stretch  *)
(* of code with at most one access to state shared between threads         *)
(* (self.last_call_time, self.active_poll, the file) or one call to an     *)
(* external service (Slack, Plivo).                                        *)
(***************************************************************************)
EXTENDS Integers, Sequences, FiniteSets, TLC

(* ---------------- program constants ---------------- *)
CALL_COOLDOWN_SECONDS == 60
POLL_DURATION_SECONDS == 60
POLL_EMOJI_AGREE == "+1"
POLL_EMOJI_DISAGREE == "-1"

(* ---------------- bounds of the model ---------------- *)
MaxMessages == 2      \* message events Slack delivers
MaxVotes == 1         \* human votes per emoji
MaxMatches == 2       \* patterns of the two keyword lists that one text matches
MaxRestarts == 1      \* times the process is started again
MaxTime == 180        \* the clock stops here

\* Two listener threads: enough for any two handlings of messages to overlap.
Handlers == {"h1", "h2"}
PollIds == 1..MaxMessages
StartTime == CALL_COOLDOWN_SECONDS
TickSteps == {CALL_COOLDOWN_SECONDS}
Users == {"U1"}
Channel == "C1"

VARIABLES
    now,             \* time.time()
    last_call_time,  \* self.last_call_time
    file,            \* the .last_call_time file
    active_poll,     \* self.active_poll
    handlers,        \* per handler thread: position and locals of handle_message/_start_poll
    polls,           \* per poll ts: position and locals of its timer thread (_complete_poll)
    next_ts,         \* next message ts Slack gives to a posted poll
    executed_at,     \* when the last successful call was made (0: none); not read by the code
    received,        \* number of message events delivered so far; not read by the code
    probe            \* stdout's last [MESSAGE] Received event line; the request app.py serves

vars == <<now, last_call_time, file, active_poll, handlers, polls, next_ts, executed_at,
          received, probe>>

(* ---------------- message_parser.py ---------------- *)
\* A text is abstracted to which keyword lists have a pattern matching it.
Texts == [cold : BOOLEAN, hot : BOOLEAN]

\* The patterns, in the order of the lists; a pattern is named by its source text.
COLD_KEYWORDS ==
    <<"\\bcold\\b", "\\bfreezing\\b", "\\bchilly\\b", "\\bcool\\b", "\\bshivering\\b",
      "too\\s+cold", "very\\s+cold", "increase\\s+(the\\s+)?temp",
      "turn\\s+(up|on)\\s+(the\\s+)?(heat|ac|temperature)", "raise\\s+(the\\s+)?temp",
      "warmer", "warm\\s+it\\s+up">>

HOT_KEYWORDS ==
    <<"\\bhot\\b", "\\bwarm\\b", "\\bsweating\\b", "\\bstuffy\\b", "\\bboiling\\b",
      "too\\s+hot", "very\\s+hot", "too\\s+warm", "decrease\\s+(the\\s+)?temp",
      "reduce\\s+(the\\s+)?temp", "turn\\s+(up|on)\\s+(the\\s+)?(ac|air\\s*con)",
      "turn\\s+down\\s+(the\\s+)?(heat|temperature)", "lower\\s+(the\\s+)?temp",
      "cooler", "cool\\s+it\\s+down">>

Range(seq) == {seq[i] : i \in 1..Len(seq)}

RECURSIVE SetsUpTo(_, _)
\* the subsets of all with at most n elements
SetsUpTo(all, n) ==
    IF n = 0 THEN {{}}
    ELSE {found \cup {pattern} : found \in SetsUpTo(all, n - 1), pattern \in all}
         \cup {{}}

\* A lower-cased message, as the set of patterns that re.search finds in it.
Messages == SetsUpTo(Range(COLD_KEYWORDS) \cup Range(HOT_KEYWORDS), MaxMatches)

RECURSIVE SearchAny(_, _)
\* for pattern in patterns: if re.search(pattern, message_lower)
SearchAny(patterns, found) ==
    IF patterns = <<>> THEN FALSE
    ELSE IF Head(patterns) \in found THEN TRUE
    ELSE SearchAny(Tail(patterns), found)

\* what the two loops of parse_temperature_request find in a message
Searched(found) ==
    [cold |-> SearchAny(COLD_KEYWORDS, found), hot |-> SearchAny(HOT_KEYWORDS, found)]

\* parse_temperature_request with the two results exchanged
parse_temperature_request_Exchanged(message) ==
    IF message.cold THEN "decrease"
    ELSE IF message.hot THEN "increase"
    ELSE "none"

parse_temperature_request(message) ==
    IF message.cold THEN "increase"
    ELSE IF message.hot THEN "decrease"
    ELSE "none"

(* ---------------- the .last_call_time file ---------------- *)
Digits == <<"0", "1", "2", "3", "4", "5", "6", "7", "8", "9">>
NoFile == [exists |-> FALSE, content |-> <<>>]

RECURSIVE str(_)
\* str(timestamp): the decimal digits of the timestamp
str(n) == IF n < 10 THEN <<Digits[n + 1]>>
          ELSE Append(str(n \div 10), Digits[(n % 10) + 1])

DigitValue(c) == CHOOSE d \in 0..9 : Digits[d + 1] = c
IsNumber(s) == Len(s) > 0 /\ \A i \in 1..Len(s) : \E d \in 1..10 : Digits[d] = s[i]

RECURSIVE float(_)
\* float(text) of a text IsNumber accepts
float(s) == IF Len(s) = 1 THEN DigitValue(s[1])
            ELSE 10 * float(SubSeq(s, 1, Len(s) - 1)) + DigitValue(s[Len(s)])

\* load_last_call_time that takes an unusable file for a call made just now
load_last_call_time_AssumesRecent(f) ==
    IF ~f.exists THEN 0
    ELSE IF IsNumber(f.content) THEN float(f.content)
    ELSE now

\* load_last_call_time that never reads the file
load_last_call_time_Forgets(f) == 0

load_last_call_time(f) ==
    IF f.exists /\ IsNumber(f.content) THEN float(f.content) ELSE 0

\* save_last_call_time: the write succeeds (ok) or raises IOError, which is caught
save_last_call_time(f, timestamp, ok) ==
    IF ok THEN [exists |-> TRUE, content |-> str(timestamp)] ELSE f

(* ---------------- _complete_poll: the tally ---------------- *)
Reaction(n, c) == [name |-> n, count |-> c]

\* What reactions_get reports for a poll message: both seeded emojis, each with
\* the bot's own reaction plus the human votes, in either order, possibly with
\* an unrelated emoji in between.
Reports(a, d) ==
    { <<Reaction(POLL_EMOJI_AGREE, a), Reaction(POLL_EMOJI_DISAGREE, d)>>,
      <<Reaction(POLL_EMOJI_DISAGREE, d), Reaction("eyes", 1),
        Reaction(POLL_EMOJI_AGREE, a)>> }

ReactionReports ==
    UNION { Reports(a, d) : a \in 1..(MaxVotes + 1), d \in 1..(MaxVotes + 1) }

\* WithoutSeed with the bot's own reaction counted as a vote
WithoutSeed_CountsSeed(count) == count

\* "Subtract 1 because bot adds the initial reaction"
WithoutSeed(count) == count - 1

RECURSIVE CountLoop(_, _, _)
CountLoop(reactions, agree_count, disagree_count) ==
    IF reactions = <<>>
    THEN [agree |-> agree_count, disagree |-> disagree_count]
    ELSE LET reaction == Head(reactions) IN
         IF reaction.name = POLL_EMOJI_AGREE
         THEN CountLoop(Tail(reactions), WithoutSeed(reaction.count), disagree_count)
         ELSE IF reaction.name = POLL_EMOJI_DISAGREE
         THEN CountLoop(Tail(reactions), agree_count, WithoutSeed(reaction.count))
         ELSE CountLoop(Tail(reactions), agree_count, disagree_count)

CountVotes(reactions) == CountLoop(reactions, 0, 0)

\* Decide with a tie counted as a majority
Decide_TieApproves(agree_count, disagree_count) ==
    IF agree_count + disagree_count = 0 THEN "NoVotes"
    ELSE IF agree_count >= disagree_count THEN "Approved"
    ELSE "Rejected"

\* "Check for simple majority"
Decide(agree_count, disagree_count) ==
    IF agree_count + disagree_count = 0 THEN "NoVotes"
    ELSE IF agree_count > disagree_count THEN "Approved"
    ELSE "Rejected"

(* ---------------- handle_message: the checks ---------------- *)
\* IsCoolingDown with the end of the window included
IsCoolingDown_Inclusive(time_since_last_call) ==
    time_since_last_call <= CALL_COOLDOWN_SECONDS

IsCoolingDown(time_since_last_call) == time_since_last_call < CALL_COOLDOWN_SECONDS

\* RemainingMinutes rounded up to the next whole minute
RemainingMinutes_RoundsUp(time_since_last_call) ==
    (CALL_COOLDOWN_SECONDS - time_since_last_call + 59) \div 60

\* int((CALL_COOLDOWN_SECONDS - time_since_last_call) / 60), of a positive number
RemainingMinutes(time_since_last_call) ==
    (CALL_COOLDOWN_SECONDS - time_since_last_call) \div 60

NoPoll == [channel |-> "none", ts |-> 0, action |-> "none", requester |-> "none"]

\* PollInProgress with the slot never found occupied
PollInProgress_Never(slot) == FALSE

PollInProgress(slot) == slot # NoPoll

(* ---------------- thread states ---------------- *)
IdleHandler ==
    [pc |-> "idle", action |-> "none", user |-> "none", current_time |-> 0,
     remaining_minutes |-> 0, poll_ts |-> 0, in_window |-> FALSE]

\* A poll's timer thread.  deadline, action: the Timer's interval and args.
\* The texts of the posted messages are left out, so agree_count and
\* disagree_count are dropped once the branch is chosen, and action once the call
\* is made.  in_window, reported (the counts reactions_get gave), outcome,
\* majority (agree_count > disagree_count at the branch), reads, calls, result,
\* posted, recorded (it wrote self.last_call_time), cleared (it emptied
\* self.active_poll) record what happened to the poll; the code does not read them.
UnusedPoll ==
    [pc |-> "unused", action |-> "none", deadline |-> 0, in_window |-> FALSE,
     reported |-> <<0, 0>>, agree_count |-> 0, disagree_count |-> 0,
     result |-> "none", current_time |-> 0,
     outcome |-> "pending", majority |-> FALSE, reads |-> 0, calls |-> 0,
     posted |-> "nothing", recorded |-> FALSE, cleared |-> FALSE]

\* the thread has ended and its locals are gone
EndedPoll(poll) == [UnusedPoll EXCEPT !.pc = "done", !.cleared = poll.cleared]

\* nothing printed, nothing requested
NoProbe == [kind |-> "none"]

Init ==
    /\ now = StartTime
    /\ file \in {NoFile, [exists |-> TRUE, content |-> str(StartTime \div 2)]}
    /\ last_call_time = load_last_call_time(file)
    /\ active_poll = NoPoll
    /\ handlers = [h \in Handlers |-> IdleHandler]
    /\ polls = [p \in PollIds |-> UnusedPoll]
    /\ next_ts = 1
    /\ executed_at = 0
    /\ received = 0
    /\ probe = NoProbe

(* ---------------- the clock ---------------- *)
Tick ==
    /\ \E d \in TickSteps : now + d <= MaxTime /\ now' = now + d
    /\ UNCHANGED <<last_call_time, file, active_poll, handlers, polls, next_ts, executed_at, received, probe>>

(* ---------------- handle_message ---------------- *)
\* a successful call was made at most CALL_COOLDOWN_SECONDS ago
InWindow == executed_at # 0 /\ executed_at <= now /\ now < executed_at + CALL_COOLDOWN_SECONDS

Events == [subtype : BOOLEAN, text : Texts, user : Users]

\* IsIgnored without the subtype filter
IsIgnored_AnySubtype(event, action) == action = "none"

\* lines 199-214: an event with a subtype, or a text that asks for nothing, is dropped
IsIgnored(event, action) == event.subtype \/ action = "none"

\* lines 195-218: the subtype filter, the classifier, and the read of the clock
ReceiveEvent(h, event) ==
    /\ handlers[h].pc = "idle"
    /\ received < MaxMessages
    /\ received' = received + 1
    /\ LET action == parse_temperature_request(event.text) IN
       handlers' = [handlers EXCEPT ![h] =
           IF IsIgnored(event, action)
           THEN IdleHandler
           ELSE [IdleHandler EXCEPT !.pc = "check_cooldown", !.action = action,
                                    !.user = event.user, !.current_time = now,
                                    !.in_window = InWindow]]
    /\ UNCHANGED <<now, last_call_time, file, active_poll, polls, next_ts, executed_at>>

ReceiveMessage(h) ==
    /\ \E event \in Events : ReceiveEvent(h, event)
    /\ UNCHANGED probe

\* lines 219-223: the read of self.last_call_time and the rate limit
CheckCooldown(h) ==
    /\ handlers[h].pc = "check_cooldown"
    /\ LET t == handlers[h].current_time - last_call_time IN
       handlers' = [handlers EXCEPT
           ![h].remaining_minutes = IF IsCoolingDown(t) THEN RemainingMinutes(t) ELSE 0,
           ![h].current_time = 0,
           ![h].action = IF IsCoolingDown(t) THEN "none" ELSE @,
           ![h].user = IF IsCoolingDown(t) THEN "none" ELSE @,
           ![h].in_window = IF IsCoolingDown(t) THEN FALSE ELSE @,
           ![h].pc = IF IsCoolingDown(t) THEN "say_cooldown" ELSE "check_poll"]
    /\ UNCHANGED <<now, last_call_time, file, active_poll, polls, next_ts, executed_at, received, probe>>

\* lines 224-228: say(...) posts the wait message, or raises; the handler returns
SayCooldown(h) ==
    /\ handlers[h].pc = "say_cooldown"
    /\ \E ok \in BOOLEAN :
         handlers' = [handlers EXCEPT ![h] =
             IdleHandler]
    /\ UNCHANGED <<now, last_call_time, file, active_poll, polls, next_ts, executed_at, received, probe>>

\* lines 230-232: the read of self.active_poll
CheckActivePoll(h) ==
    /\ handlers[h].pc = "check_poll"
    /\ handlers' = [handlers EXCEPT ![h] =
           IF PollInProgress(active_poll)
           THEN [IdleHandler EXCEPT !.pc = "say_vote"]
           ELSE [@ EXCEPT !.pc = "post_poll"]]
    /\ UNCHANGED <<now, last_call_time, file, active_poll, polls, next_ts, executed_at, received, probe>>

\* lines 233-234: say(...) posts the vote-on-the-existing-poll message, or raises
SayVote(h) ==
    /\ handlers[h].pc = "say_vote"
    /\ \E ok \in BOOLEAN :
         handlers' = [handlers EXCEPT ![h] =
             IdleHandler]
    /\ UNCHANGED <<now, last_call_time, file, active_poll, polls, next_ts, executed_at, received, probe>>

(* ---------------- _start_poll ---------------- *)
\* lines 85-106: chat_postMessage posts the poll and returns its ts, and the two
\* reactions_add seed it; or one of the three calls raises and the handler ends
PostPoll(h) ==
    /\ handlers[h].pc = "post_poll"
    /\ \E ok \in BOOLEAN :
         IF ok
         THEN /\ handlers' = [handlers EXCEPT ![h].pc = "store_poll",
                                               ![h].poll_ts = next_ts]
              /\ next_ts' = next_ts + 1
         ELSE /\ handlers' = [handlers EXCEPT ![h] = IdleHandler]
              /\ UNCHANGED next_ts
    /\ UNCHANGED <<now, last_call_time, file, active_poll, polls, executed_at, received, probe>>

\* lines 108-114: the write of self.active_poll
StorePoll(h) ==
    /\ handlers[h].pc = "store_poll"
    /\ active_poll' = [channel |-> Channel, ts |-> handlers[h].poll_ts,
                       action |-> handlers[h].action, requester |-> handlers[h].user]
    /\ handlers' = [handlers EXCEPT ![h].pc = "start_timer"]
    /\ UNCHANGED <<now, last_call_time, file, polls, next_ts, executed_at, received, probe>>

\* lines 116-118: threading.Timer(POLL_DURATION_SECONDS, self._complete_poll, ...).start()
StartTimer(h) ==
    /\ handlers[h].pc = "start_timer"
    /\ polls' = [polls EXCEPT ![handlers[h].poll_ts] =
           [UnusedPoll EXCEPT !.pc = "scheduled", !.action = handlers[h].action,
                              !.deadline = now + POLL_DURATION_SECONDS,
                              !.in_window = handlers[h].in_window]]
    /\ handlers' = [handlers EXCEPT ![h] = IdleHandler]
    /\ UNCHANGED <<now, last_call_time, file, active_poll, next_ts, executed_at, received, probe>>

(* ---------------- _complete_poll ---------------- *)
\* AfterTally with the call made for a rejected poll too
AfterTally_RejectedCalls(outcome) ==
    CASE outcome = "NoVotes" -> "post_novotes"
      [] outcome = "Approved" -> "call"
      [] outcome = "Rejected" -> "call"

\* where the try block goes after the tally
AfterTally(outcome) ==
    CASE outcome = "NoVotes" -> "post_novotes"
      [] outcome = "Approved" -> "call"
      [] outcome = "Rejected" -> "post_rejected"

\* lines 120-126: the timer fires and reactions_get raises
ReadReactionsFails(p) ==
    /\ polls[p].pc = "scheduled"
    /\ now >= polls[p].deadline
    /\ polls' = [polls EXCEPT ![p].pc = "except", ![p].outcome = "Error",
                              ![p].reads = @ + 1, ![p].deadline = 0,
                              ![p].action = "none"]
    /\ UNCHANGED <<now, last_call_time, file, active_poll, handlers, next_ts, executed_at, received, probe>>

\* lines 120-140: the timer fires, reactions_get answers and the votes are counted
CountReport(p, reactions) ==
    /\ polls[p].pc = "scheduled"
    /\ now >= polls[p].deadline
    /\ LET tally == CountVotes(reactions)
           count(name) == (CHOOSE i \in 1..Len(reactions) :
                               reactions[i].name = name)
       IN polls' = [polls EXCEPT ![p].reported =
                                     <<reactions[count(POLL_EMOJI_AGREE)].count,
                                       reactions[count(POLL_EMOJI_DISAGREE)].count>>,
                                 ![p].agree_count = tally.agree,
                                 ![p].disagree_count = tally.disagree,
                                 ![p].reads = @ + 1,
                                 ![p].deadline = 0,
                                 ![p].pc = "decide"]
    /\ UNCHANGED <<now, last_call_time, file, active_poll, handlers, next_ts, executed_at, received, probe>>

CountPoll(p) == \E reactions \in ReactionReports : CountReport(p, reactions)

\* DecidePoll with the slot emptied once the outcome is known, before the
\* dispatch
DecidePoll_ClearsSlot(p) ==
    /\ polls[p].pc = "decide"
    /\ LET outcome == Decide(polls[p].agree_count, polls[p].disagree_count) IN
       polls' = [polls EXCEPT ![p].outcome = outcome,
                              ![p].majority = polls[p].agree_count > polls[p].disagree_count,
                              ![p].pc = AfterTally(outcome),
                              ![p].agree_count = 0,
                              ![p].disagree_count = 0]
    /\ active_poll' = NoPoll
    /\ UNCHANGED <<now, last_call_time, file, handlers, next_ts, executed_at, received, probe>>

\* lines 142-151: the branch on the counts
DecidePoll(p) ==
    /\ polls[p].pc = "decide"
    /\ LET outcome == Decide(polls[p].agree_count, polls[p].disagree_count) IN
       polls' = [polls EXCEPT ![p].outcome = outcome,
                              ![p].majority = polls[p].agree_count > polls[p].disagree_count,
                              ![p].pc = AfterTally(outcome),
                              ![p].agree_count = 0,
                              ![p].disagree_count = 0]
    /\ UNCHANGED <<now, last_call_time, file, active_poll, handlers, next_ts, executed_at, received, probe>>

(* ---------------- _execute_temperature_action ---------------- *)
\* make_temperature_call returns success, returns failure (PlivoRestError is
\* caught), or lets another exception through
CallResults == {"success", "failure", "raise"}

\* AfterCall with a failed call tried again
AfterCall_RetriesFailure(result) ==
    CASE result = "success" -> "get_time"
      [] result = "failure" -> "call"
      [] result = "raise" -> "except"

\* AfterCall with the cooldown recorded whatever the call answered
AfterCall_RecordsFailure(result) ==
    CASE result = "success" -> "get_time"
      [] result = "failure" -> "get_time"
      [] result = "raise" -> "except"

\* line 174 and the exception path out of line 171
AfterCall(result) ==
    CASE result = "success" -> "get_time"
      [] result = "failure" -> "post_failure"
      [] result = "raise" -> "except"

\* line 171: self.phone_caller.make_temperature_call(action)
MakeCall(p) ==
    /\ polls[p].pc = "call"
    /\ \E result \in CallResults :
         polls' = [polls EXCEPT ![p].result = result, ![p].calls = @ + 1,
                                ![p].action = "none",
                                ![p].reported = <<0, 0>>,
                                ![p].pc = AfterCall(result)]
    /\ UNCHANGED <<now, last_call_time, file, active_poll, handlers, next_ts, executed_at, received, probe>>

\* line 175: current_time = time.time()
GetTime(p) ==
    /\ polls[p].pc = "get_time"
    /\ polls' = [polls EXCEPT ![p].current_time = now, ![p].pc = "set_last_call_time"]
    /\ executed_at' = now
    /\ UNCHANGED <<now, last_call_time, file, active_poll, handlers, next_ts, received, probe>>

\* line 176: self.last_call_time = current_time
SetLastCallTime(p) ==
    /\ polls[p].pc = "set_last_call_time"
    /\ last_call_time' = polls[p].current_time
    /\ polls' = [polls EXCEPT ![p].recorded = TRUE, ![p].pc = "save"]
    /\ UNCHANGED <<now, file, active_poll, handlers, next_ts, executed_at, received, probe>>

\* line 177: save_last_call_time(current_time)
SaveLastCallTime(p) ==
    /\ polls[p].pc = "save"
    /\ \E ok \in BOOLEAN :
         file' = save_last_call_time(file, polls[p].current_time, ok)
    /\ polls' = [polls EXCEPT ![p].pc = "post_success", ![p].current_time = 0]
    /\ UNCHANGED <<now, last_call_time, active_poll, handlers, next_ts, executed_at, received, probe>>

PostKinds == [post_novotes |-> "novotes", post_rejected |-> "rejected",
              post_success |-> "success", post_failure |-> "failure"]

\* lines 144, 153, 179, 185: chat_postMessage of the poll's result, or it raises
PostResult(p) ==
    /\ polls[p].pc \in DOMAIN PostKinds
    /\ \E ok \in BOOLEAN :
         polls' = [polls EXCEPT
             ![p].posted = IF ok THEN PostKinds[polls[p].pc] ELSE @,
             ![p].action = "none",
             ![p].reported = <<0, 0>>,
             ![p].pc = IF ok THEN "finally" ELSE "except"]
    /\ UNCHANGED <<now, last_call_time, file, active_poll, handlers, next_ts, executed_at, received, probe>>

\* AfterErrorPost with the slot cleared after the try statement, not in a
\* finally block: a raising post ends the thread before it
AfterErrorPost_SkipsFinally(ok) == IF ok THEN "finally" ELSE "done"

\* where control goes after the except block's chat_postMessage: the finally
\* block runs whether the post returned or raised
AfterErrorPost(ok) == "finally"

\* lines 158-163: the except block posts the error message, or that raises too
PostError(p) ==
    /\ polls[p].pc = "except"
    /\ \E ok \in BOOLEAN :
         polls' = [polls EXCEPT
             ![p].posted = IF ok THEN "error" ELSE @,
             ![p].pc = AfterErrorPost(ok)]
    /\ UNCHANGED <<now, last_call_time, file, active_poll, handlers, next_ts, executed_at, received, probe>>

\* lines 164-165: finally: self.active_poll = None; the thread ends
Finally(p) ==
    /\ polls[p].pc = "finally"
    /\ active_poll' = NoPoll
    /\ polls' = [polls EXCEPT ![p] = EndedPoll([@ EXCEPT !.cleared = TRUE])]
    /\ UNCHANGED <<now, last_call_time, file, handlers, next_ts, executed_at, received, probe>>

Next ==
    \/ Tick
    \/ \E h \in Handlers : ReceiveMessage(h)
    \/ \E h \in Handlers : CheckCooldown(h)
    \/ \E h \in Handlers : SayCooldown(h)
    \/ \E h \in Handlers : CheckActivePoll(h)
    \/ \E h \in Handlers : SayVote(h)
    \/ \E h \in Handlers : PostPoll(h)
    \/ \E h \in Handlers : StorePoll(h)
    \/ \E h \in Handlers : StartTimer(h)
    \/ \E p \in PollIds : ReadReactionsFails(p)
    \/ \E p \in PollIds : CountPoll(p)
    \/ \E p \in PollIds : DecidePoll(p)
    \/ \E p \in PollIds : MakeCall(p)
    \/ \E p \in PollIds : GetTime(p)
    \/ \E p \in PollIds : SetLastCallTime(p)
    \/ \E p \in PollIds : SaveLastCallTime(p)
    \/ \E p \in PollIds : PostResult(p)
    \/ \E p \in PollIds : PostError(p)
    \/ \E p \in PollIds : Finally(p)

Spec == Init /\ [][Next]_vars

(* ---------------- the process ends and is started again ---------------- *)
\* a file whose content float() rejects with ValueError
CorruptFile == [exists |-> TRUE, content |-> <<"3", "x">>]
EmptyFile == [exists |-> TRUE, content |-> <<>>]

\* the Timer thread ended with the process before _complete_poll returned
LostPoll == [UnusedPoll EXCEPT !.pc = "lost"]

\* lines 36-44 with the open() or read() raising IOError when the file is not readable
read_last_call_time(f, readable) ==
    IF readable THEN load_last_call_time(f) ELSE 0

\* line 43: the except branch printed
LoadError(f, readable) == f.exists /\ (~readable \/ ~IsNumber(f.content))

\* The process is killed and TemperatureBot() is constructed again (lines 58-81):
\* threads and their locals are gone, the file stays
\* boot: how many times the process has been started; not read by the code
Restart ==
    /\ probe.boot <= MaxRestarts
    /\ \E readable \in BOOLEAN :
         /\ last_call_time' = read_last_call_time(file, readable)
         /\ probe' = [kind |-> "start", error |-> LoadError(file, readable),
                      boot |-> probe.boot + 1]
    /\ active_poll' = NoPoll
    /\ handlers' = [h \in Handlers |-> IdleHandler]
    /\ polls' = [p \in PollIds |->
           IF polls[p].pc \in {"unused", "done", "lost"} THEN polls[p] ELSE LostPoll]
    /\ UNCHANGED <<now, file, next_ts, executed_at, received>>

\* the file may have been left in any state by an earlier run or by someone else
InitAnyFile ==
    /\ now = StartTime
    /\ file \in {NoFile, [exists |-> TRUE, content |-> str(StartTime \div 2)],
                 CorruptFile, EmptyFile}
    /\ \E readable \in BOOLEAN :
         /\ last_call_time = read_last_call_time(file, readable)
         /\ probe = [kind |-> "start", error |-> LoadError(file, readable), boot |-> 1]
    /\ active_poll = NoPoll
    /\ handlers = [h \in Handlers |-> IdleHandler]
    /\ polls = [p \in PollIds |-> UnusedPoll]
    /\ next_ts = 1
    /\ executed_at = 0
    /\ received = 0

\* one step of a handler thread (handle_message, _start_poll)
HandlerStep(h) ==
    \/ ReceiveMessage(h)
    \/ CheckCooldown(h)
    \/ SayCooldown(h)
    \/ CheckActivePoll(h)
    \/ SayVote(h)
    \/ PostPoll(h)
    \/ StorePoll(h)
    \/ StartTimer(h)

\* one step of a poll's timer thread (_complete_poll, _execute_temperature_action)
TimerStep(p) ==
    \/ ReadReactionsFails(p)
    \/ CountPoll(p)
    \/ DecidePoll(p)
    \/ MakeCall(p)
    \/ GetTime(p)
    \/ SetLastCallTime(p)
    \/ SaveLastCallTime(p)
    \/ PostResult(p)
    \/ PostError(p)
    \/ Finally(p)

\* messages handled one at a time, so that what a restart does is seen apart from
\* the interleaving of handlers
OneHandler == CHOOSE h \in Handlers : TRUE

NextRestart ==
    \/ Tick
    \/ HandlerStep(OneHandler)
    \/ \E p \in PollIds : TimerStep(p)
    \/ Restart

SpecRestart == InitAnyFile /\ [][NextRestart]_vars

(* ---------------- one approved poll, end to end ---------------- *)
\* reactions_get reports three reactions on the agree emoji and one on the disagree
\* emoji (the bot's own seed reaction is among each)
ScenarioReports == Reports(3, 1)

CountScenario(p) == \E reactions \in ScenarioReports : CountReport(p, reactions)

NextScenario ==
    \/ Tick
    \/ HandlerStep(OneHandler)
    \/ \E p \in PollIds : ReadReactionsFails(p)
    \/ \E p \in PollIds : CountScenario(p)
    \/ \E p \in PollIds : DecidePoll(p)
    \/ \E p \in PollIds : MakeCall(p)
    \/ \E p \in PollIds : GetTime(p)
    \/ \E p \in PollIds : SetLastCallTime(p)
    \/ \E p \in PollIds : SaveLastCallTime(p)
    \/ \E p \in PollIds : PostResult(p)
    \/ \E p \in PollIds : PostError(p)
    \/ \E p \in PollIds : Finally(p)

SpecScenario == Init /\ [][NextScenario]_vars

(* ---------------- the message handler after a call, second by second ---------------- *)
FineSteps == {5}

TickFine ==
    /\ \E d \in FineSteps : now + d <= MaxTime /\ now' = now + d
    /\ UNCHANGED <<last_call_time, file, active_poll, handlers, polls, next_ts, executed_at, received, probe>>

\* line 196: the handler prints the event it was given
ReceiveLogged(h) ==
    \E event \in Events :
        /\ ReceiveEvent(h, event)
        /\ probe' = [kind |-> "event", handler |-> h, event |-> event]

\* a poll was approved, its call succeeded and was recorded (lines 175-179), and
\* its timer thread has ended
InitAfterCall ==
    /\ now = StartTime
    /\ executed_at = now
    /\ last_call_time = now
    /\ file = save_last_call_time(NoFile, now, TRUE)
    /\ active_poll = NoPoll
    /\ handlers = [h \in Handlers |-> IdleHandler]
    /\ polls = [p \in PollIds |-> UnusedPoll]
    /\ next_ts = 1
    /\ received = 0
    /\ probe = NoProbe

NextRouter ==
    \/ TickFine
    \/ \E h \in Handlers : ReceiveLogged(h)
    \/ \E h \in Handlers : CheckCooldown(h)
    \/ \E h \in Handlers : SayCooldown(h)
    \/ \E h \in Handlers : CheckActivePoll(h)
    \/ \E h \in Handlers : SayVote(h)
    \/ \E h \in Handlers : PostPoll(h)
    \/ \E h \in Handlers : StorePoll(h)
    \/ \E h \in Handlers : StartTimer(h)

SpecRouter == InitAfterCall /\ [][NextRouter]_vars

(* ---------------- app.py: the script Plivo fetches for a call ---------------- *)
TemperatureActions == {"increase", "decrease", "none"}

\* TemperatureAction(value): the member with that value, or ValueError
TemperatureAction(value) ==
    IF value \in TemperatureActions THEN value ELSE "ValueError"

IncreaseScript ==
    "Hi, this is an automated call from Plivo. The employees have reported that the temperature is too cold. Please increase the AC temperature. Thank you."

DecreaseScript ==
    "Hi, this is an automated call from Plivo. The employees have reported that the temperature is too hot. Please reduce the AC temperature. Thank you."

GenericScript ==
    "Hello, this is an automated call from your office regarding temperature control."

get_tts_message(action) ==
    IF action = "increase" THEN IncreaseScript
    ELSE IF action = "decrease" THEN DecreaseScript
    ELSE ""

\* plivo_xml without the "if not tts_message" branch
plivo_xml_SpeaksAsIs(action) ==
    LET temp_action == IF TemperatureAction(action) = "ValueError"
                       THEN "none" ELSE TemperatureAction(action)
    IN [status |-> 200, mimetype |-> "application/xml",
        speak |-> get_tts_message(temp_action)]

plivo_xml(action) ==
    LET temp_action == IF TemperatureAction(action) = "ValueError"
                       THEN "none" ELSE TemperatureAction(action)
        tts_message == get_tts_message(temp_action)
    IN [status |-> 200, mimetype |-> "application/xml",
        speak |-> IF tts_message = ""
                  THEN GenericScript
                  ELSE tts_message]

\* values of <action> in /plivo-xml/<action>
PathValues == {"increase", "decrease", "none", "INCREASE", "Increase", "warmer", "cooler", "0"}

(* ---------------- the two functions applied to their inputs ---------------- *)
InitInputs ==
    /\ now = StartTime
    /\ file = NoFile
    /\ last_call_time = load_last_call_time(file)
    /\ active_poll = NoPoll
    /\ handlers = [h \in Handlers |-> IdleHandler]
    /\ polls = [p \in PollIds |-> UnusedPoll]
    /\ next_ts = 1
    /\ executed_at = 0
    /\ received = 0
    /\ probe \in [kind : {"text"}, text : Messages]
                    \cup [kind : {"request"}, action : PathValues]

Classify ==
    /\ probe.kind = "text"
    /\ probe' = [kind |-> "classified", text |-> probe.text,
                 action |-> parse_temperature_request(Searched(probe.text))]
    /\ UNCHANGED <<now, last_call_time, file, active_poll, handlers, polls, next_ts, executed_at, received>>

ServeScript ==
    /\ probe.kind = "request"
    /\ probe' = [kind |-> "response", action |-> probe.action,
                 response |-> plivo_xml(probe.action)]
    /\ UNCHANGED <<now, last_call_time, file, active_poll, handlers, polls, next_ts, executed_at, received>>

NextInputs == Classify \/ ServeScript

SpecInputs == InitInputs /\ [][NextInputs]_vars

(* ---------------- threads that are scheduled, a clock that advances ---------------- *)
\* A started threading.Timer thread is run by the interpreter until its function
\* returns, and time passes: each timer thread that can take a step eventually
\* takes one, and the clock eventually ticks.  Nothing is assumed of the handlers.
Fairness ==
    /\ WF_vars(Tick)
    /\ \A p \in PollIds : WF_vars(TimerStep(p))

NextFair ==
    \/ Tick
    \/ HandlerStep(OneHandler)
    \/ \E p \in PollIds : TimerStep(p)

SpecFair == Init /\ [][NextFair]_vars /\ Fairness

(* ======================= properties ======================= *)
\* the poll message is posted and its timer scheduled, and its resolution has
\* not finished
Open(p) == polls[p].pc \notin {"unused", "done", "lost"}
Waiting(p) == polls[p].pc = "scheduled"
OpenPolls == {p \in PollIds : Open(p)}

\* the dispatch of poll p is running: from the call to the answer that follows it
Dispatching(p) ==
    polls[p].pc \in {"call", "get_time", "set_last_call_time", "save",
                     "post_success", "post_failure"}

\* handler h takes a step
Steps(h) == handlers'[h] # handlers[h]
\* the timer thread of poll p takes a step
Runs(p) == polls'[p] # polls[p]

\* C1: at any time at most one poll of the channel is Open, also when two
\* qualifying messages are handled at once.
C1_AtMostOneOpenPoll == Cardinality(OpenPolls) <= 1

\* C2: once a call succeeded at time T, no call is made for a poll opened by a
\* qualifying message that arrived at or after T and before T + CALL_COOLDOWN_SECONDS.
C2_NoCallFromMessageInWindow ==
    \A p \in PollIds : polls[p].calls > 0 => ~polls[p].in_window

\* C3: when reactions_get reports Agree = N + 1 and Disagree = M + 1 the tally is
\* (N, M), and the outcome is Approved iff N > M, Rejected iff N <= M and
\* N + M > 0, NoVotes iff N = M = 0.
C3_TallyCorrect ==
    \A p \in PollIds :
        LET N == polls[p].reported[1] - 1
            M == polls[p].reported[2] - 1
        IN /\ polls[p].pc = "decide" =>
                 /\ polls[p].agree_count = N
                 /\ polls[p].disagree_count = M
           /\ (polls[p].outcome \notin {"pending", "Error"} /\ polls[p].reported # <<0, 0>>) =>
                 /\ polls[p].outcome = "Approved" <=> N > M
                 /\ polls[p].outcome = "Rejected" <=> (N <= M /\ N + M > 0)
                 /\ polls[p].outcome = "NoVotes" <=> (N = 0 /\ M = 0)

\* a tie of one vote each was read and the poll was rejected
C3_Witness ==
    \E p \in PollIds : /\ polls[p].reported = <<2, 2>>
                       /\ polls[p].outcome = "Rejected"
                       /\ polls[p].pc = "post_rejected"

\* C4: the call is made for a poll only if its tally had agree_count >
\* disagree_count; a poll that ended NoVotes, Rejected or Error makes no call and
\* does not write the cooldown timestamp.
C4_CallOnlyOnMajority ==
    \A p \in PollIds :
        /\ (polls[p].pc = "call" \/ polls[p].calls > 0 \/ polls[p].recorded)
               => polls[p].majority
        /\ polls[p].outcome \in {"NoVotes", "Rejected", "Error"}
               => /\ polls[p].calls = 0
                  /\ ~polls[p].recorded
                  /\ ~Dispatching(p)

\* a rejected poll has posted its result, no call made, the cooldown not written
C4_Witness ==
    \E p \in PollIds : /\ polls[p].outcome = "Rejected"
                       /\ polls[p].pc = "finally"
                       /\ polls[p].posted = "rejected"
                       /\ polls[p].calls = 0
                       /\ last_call_time = 0

\* C5: for an Approved poll the call is made exactly once, whether it succeeds
\* or fails; a failed call is not made again.
C5_ExactlyOneCall ==
    \A p \in PollIds :
        /\ polls[p].calls <= 1
        /\ (polls[p].outcome = "Approved" /\ polls[p].pc # "call") => polls[p].calls = 1

\* an approved poll whose call failed has reached the end with one call made
C5_Witness ==
    \E p \in PollIds : /\ polls[p].outcome = "Approved"
                       /\ polls[p].result = "failure"
                       /\ polls[p].pc = "finally"
                       /\ polls[p].calls = 1

\* C6: self.last_call_time and the file change only in a dispatch whose call
\* reported success; when the call reports failure the dispatch goes on to post
\* the failure message and leaves both unchanged.
C6_CooldownOnlyOnSuccess ==
    [][ /\ (last_call_time' # last_call_time \/ file' # file) =>
               \E p \in PollIds : /\ Runs(p)
                                  /\ polls[p].result = "success"
                                  /\ polls[p].pc \in {"set_last_call_time", "save"}
        /\ \A p \in PollIds :
               /\ (Runs(p) /\ polls[p].pc = "call" /\ polls'[p].result = "failure") =>
                      /\ polls'[p].pc = "post_failure"
                      /\ UNCHANGED <<last_call_time, file>>
               /\ (Runs(p) /\ polls[p].pc = "post_failure") =>
                      /\ UNCHANGED <<last_call_time, file>>
                      /\ \/ polls'[p].pc = "finally" /\ polls'[p].posted = "failure"
                         \/ polls'[p].pc = "except" /\ polls'[p].posted = "nothing"
               /\ (Runs(p) /\ polls[p].result = "failure") =>
                      /\ ~polls'[p].recorded
                      /\ UNCHANGED <<last_call_time, file>>
      ]_vars

\* a failed call has been answered with the failure message, no cooldown set
C6_Witness ==
    \E p \in PollIds : /\ polls[p].result = "failure"
                       /\ polls[p].posted = "failure"
                       /\ polls[p].pc = "finally"
                       /\ last_call_time = 0
                       /\ file = NoFile

\* C7 as stated: while the dispatch of an approved poll is running, the
\* active-poll slot is already empty.
C7_SlotEmptyDuringDispatch ==
    \A p \in PollIds : Dispatching(p) => active_poll = NoPoll

\* C7 as amended: the slot is emptied only by the finally block, after the
\* dispatch has returned or raised; no step of the decision or of the dispatch
\* changes it, and a handler that reads the slot while the poll it holds is being
\* dispatched goes on to post the vote-on-the-existing-poll message.
C7_SlotClearedOnlyInFinally ==
    [][ /\ (active_poll # NoPoll /\ active_poll' = NoPoll) =>
               \E p \in PollIds : /\ polls[p].pc = "finally"
                                  /\ polls'[p].pc = "done"
                                  /\ ~Dispatching(p)
        /\ \A p \in PollIds :
               (Runs(p) /\ (polls[p].pc = "decide" \/ Dispatching(p)))
                   => UNCHANGED active_poll
        /\ \A h \in Handlers :
               (/\ Steps(h)
                /\ handlers[h].pc = "check_poll"
                /\ \E p \in PollIds : Dispatching(p) /\ active_poll.ts = p)
                   => handlers'[h].pc = "say_vote"
      ]_vars

\* a poll is being dispatched, the slot still holds it, and a handler that read
\* the slot meanwhile is about to post the vote message
C7_Witness ==
    \E p \in PollIds, h \in Handlers :
        /\ Dispatching(p)
        /\ active_poll.ts = p
        /\ handlers[h].pc = "say_vote"

\* C8: for a qualifying message the cooldown is checked before the active poll:
\* when current_time - last_call_time < CALL_COOLDOWN_SECONDS the handler posts
\* the wait message and returns without opening a poll, whether or not a poll is
\* open; otherwise it goes on to read the slot, and posts the vote message when
\* the slot is occupied.
C8_CooldownBeforePoll ==
    [][ \A h \in Handlers :
          /\ (Steps(h) /\ handlers[h].pc = "check_cooldown") =>
                 /\ UNCHANGED <<active_poll, polls, next_ts>>
                 /\ IF handlers[h].current_time - last_call_time < CALL_COOLDOWN_SECONDS
                    THEN handlers'[h].pc = "say_cooldown"
                    ELSE handlers'[h].pc = "check_poll"
          /\ (Steps(h) /\ handlers[h].pc = "say_cooldown") =>
                 /\ handlers'[h].pc = "idle"
                 /\ UNCHANGED <<active_poll, polls, next_ts>>
          /\ (Steps(h) /\ handlers[h].pc = "check_poll" /\ active_poll # NoPoll) =>
                 handlers'[h].pc = "say_vote"
          /\ (Steps(h) /\ handlers'[h].pc = "say_vote") =>
                 handlers[h].pc = "check_poll"
      ]_vars

\* a handler is about to post the wait message while the slot holds a poll that
\* is still open
C8_Witness ==
    \E h \in Handlers, p \in PollIds :
        /\ handlers[h].pc = "say_cooldown"
        /\ active_poll.ts = p
        /\ Open(p)

\* C9: a qualifying message handled while the slot holds a poll posts only the
\* vote-on-the-existing-poll message: the slot, the pending timers and the
\* cooldown timestamp stay as they are.
C9_OpenPollOnlyAcknowledged ==
    [][ \A h \in Handlers :
          /\ (Steps(h) /\ handlers[h].pc = "check_poll" /\ active_poll # NoPoll) =>
                 /\ handlers'[h].pc = "say_vote"
                 /\ UNCHANGED <<active_poll, polls, next_ts, last_call_time, file>>
          /\ (Steps(h) /\ handlers[h].pc = "say_vote") =>
                 /\ handlers'[h].pc = "idle"
                 /\ UNCHANGED <<active_poll, polls, next_ts, last_call_time, file>>
      ]_vars

\* a handler is about to post the vote message while the poll in the slot waits
\* for its timer
C9_Witness ==
    \E h \in Handlers, p \in PollIds :
        /\ handlers[h].pc = "say_vote"
        /\ active_poll.ts = p
        /\ Waiting(p)

\* C10: when reactions_get fails the poll ends in Error: the reactions are read
\* once, no call is made, the cooldown timestamp is not written, only the error
\* message is posted (or nothing when that post fails too), and every poll whose
\* thread has ended has emptied the slot.
C10_ReadFailureEndsPoll ==
    \A p \in PollIds :
        /\ polls[p].outcome = "Error" =>
               /\ polls[p].pc \in {"except", "finally"}
               /\ polls[p].reads = 1
               /\ polls[p].calls = 0
               /\ ~polls[p].recorded
               /\ polls[p].posted \in {"nothing", "error"}
               /\ polls[p].pc = "except" => polls[p].posted = "nothing"
        /\ polls[p].reads <= 1
        /\ polls[p].pc = "done" => polls[p].cleared

\* the reactions could not be read, the error message could not be posted
\* either, and the finally block is about to empty the slot
C10_Witness ==
    \E p \in PollIds : /\ polls[p].outcome = "Error"
                       /\ polls[p].pc = "finally"
                       /\ polls[p].posted = "nothing"
                       /\ active_poll.ts = p

\* the process has just been started again
Restarted == probe'.boot > probe.boot

C12_ApprovalEndToEnd ==
    [][/\ \A h \in Handlers :
            handlers[h].pc = "start_timer" /\ Steps(h)
               => /\ handlers[h].action \in {"increase", "decrease"}
                  /\ active_poll.action = handlers[h].action
                  /\ polls'[handlers[h].poll_ts].pc = "scheduled"
                  /\ polls'[handlers[h].poll_ts].action = handlers[h].action
       /\ \A p \in PollIds : Runs(p) =>
            /\ polls[p].pc = "scheduled" /\ polls'[p].pc = "decide"
                  => /\ polls'[p].reported = <<3, 1>>
                     /\ polls'[p].agree_count = 2
                     /\ polls'[p].disagree_count = 0
                     /\ polls'[p].action = polls[p].action
            /\ polls[p].pc = "decide"
                  => /\ polls'[p].outcome = "Approved"
                     /\ polls'[p].pc = "call"
                     /\ polls'[p].action = polls[p].action
            /\ polls[p].pc = "call"
                  => /\ polls[p].action \in {"increase", "decrease"}
                     /\ polls'[p].calls = 1
                     /\ polls'[p].result = "success" => polls'[p].pc = "get_time"
            /\ polls[p].pc = "get_time"
                  => polls'[p].current_time = now /\ polls'[p].pc = "set_last_call_time"
            /\ polls[p].pc = "set_last_call_time"
                  => last_call_time' = polls[p].current_time /\ polls'[p].pc = "save"
            /\ polls[p].pc = "save" => polls'[p].pc = "post_success"
            /\ polls[p].pc = "post_success" /\ polls'[p].posted # polls[p].posted
                  => polls'[p].posted = "success"]_vars

\* the poll for an increase was approved, its call succeeded, the timestamp is the
\* time the call returned and the confirmation has been posted
C12_Witness ==
    \E p \in PollIds :
        /\ polls[p].pc = "finally"
        /\ active_poll # NoPoll
        /\ active_poll.ts = p
        /\ active_poll.action = "increase"
        /\ polls[p].outcome = "Approved"
        /\ polls[p].reads = 1
        /\ polls[p].calls = 1
        /\ polls[p].result = "success"
        /\ polls[p].posted = "success"
        /\ last_call_time = executed_at
        /\ executed_at = now

\* C13 as stated: with CALL_COOLDOWN_SECONDS = 60, a request read 5 seconds after a
\* successful call is answered with a wait of 1 minute
C13_WaitOneMinute ==
    [][\A h \in Handlers :
          /\ handlers[h].pc = "check_cooldown"
          /\ Steps(h)
          /\ last_call_time = executed_at
          /\ handlers[h].current_time = executed_at + 5
          => /\ handlers'[h].pc = "say_cooldown"
             /\ handlers'[h].remaining_minutes = 1]_vars

\* C13: with CALL_COOLDOWN_SECONDS = 60, a request read 5 seconds after a
\* successful call is answered with the wait message, which states 0 minutes (the
\* 55 seconds left, in whole minutes rounded down), and the handler then returns
\* without opening a poll.
C13_WaitZeroMinutes ==
    [][\A h \in Handlers :
          /\ (/\ handlers[h].pc = "check_cooldown"
              /\ Steps(h)
              /\ last_call_time = executed_at
              /\ handlers[h].current_time = executed_at + 5
              => /\ handlers'[h].pc = "say_cooldown"
                 /\ handlers'[h].remaining_minutes = 0)
          /\ (handlers[h].pc = "say_cooldown" /\ Steps(h)
              => /\ handlers'[h] = IdleHandler
                 /\ UNCHANGED <<active_poll, polls, next_ts, last_call_time, file>>)]_vars

\* the wait message for a request read 5 seconds after the call is about to be posted
C13_Witness ==
    \E h \in Handlers :
        /\ handlers[h].pc = "say_cooldown"
        /\ handlers[h].remaining_minutes = 0
        /\ last_call_time = executed_at
        /\ now = executed_at + 5
        /\ CALL_COOLDOWN_SECONDS = 60

C15_ScriptAlwaysServed ==
    probe.kind = "response" =>
        /\ probe.response.status = 200
        /\ probe.response.speak # ""
        /\ probe.action = "increase" => probe.response.speak = IncreaseScript
        /\ probe.action = "decrease" => probe.response.speak = DecreaseScript
        /\ probe.action \notin {"increase", "decrease"}
              => probe.response.speak = GenericScript

\* the script for "none" has been served
C15_Witness ==
    /\ probe.kind = "response"
    /\ probe.action = "none"
    /\ probe.response.speak = GenericScript

\* C16: a poll whose timer has been started (and whose deadline the clock reaches)
\* eventually has its timer thread ended with self.active_poll emptied by it,
\* whatever the handlers do meanwhile and whichever calls raise; the timer thread
\* takes its first step only once the deadline has passed, reads the reactions at
\* most once, never runs again after it ended, and no handler step changes a poll
\* that has been scheduled.
C16_PollRunsToCompletion ==
    /\ [][/\ \A p \in PollIds :
               /\ Waiting(p) /\ Runs(p)
                     => /\ now >= polls[p].deadline
                        /\ polls'[p].reads = 1
                        /\ handlers' = handlers
               /\ polls[p].pc \notin {"unused", "scheduled"} => polls'[p].reads <= 1
               /\ polls[p].pc = "done" => polls'[p] = polls[p]
          /\ \A h \in Handlers :
               Steps(h) => \A p \in PollIds :
                               polls[p].pc # "unused" => polls'[p] = polls[p]]_vars
    /\ \A p \in PollIds :
           (Open(p) /\ polls[p].deadline <= MaxTime)
               ~> (polls[p].pc = "done" /\ polls[p].cleared)

\* a poll's timer thread has ended and emptied the slot while another poll is waiting
C16_Witness ==
    \E p \in PollIds :
        /\ polls[p].pc = "done"
        /\ polls[p].cleared
        /\ \E q \in PollIds : q # p /\ Waiting(q)

\* C17: no step replaces self.last_call_time by a smaller value (the clock of the
\* model never goes back).
C17_CooldownNeverDecreases == [][last_call_time' >= last_call_time]_vars

\* the file holds no timestamp that save_last_call_time could have written
Unusable(f) == ~f.exists \/ f.content \notin {str(t) : t \in 0..MaxTime}

\* C18: the process can always be started, and when the file is absent, cannot be
\* read, or holds no timestamp, it starts with self.last_call_time = 0; when
\* save_last_call_time fails after a successful call, self.last_call_time already
\* holds the call's timestamp and keeps it, the next thing the timer thread does is
\* to post the confirmation, and a request read less than CALL_COOLDOWN_SECONDS
\* after that timestamp is answered with the wait message (all this for as long
\* as the process is not ended).
C18_PersistenceErrorsNotFatal ==
    [][/\ probe.boot <= MaxRestarts => ENABLED Restart
       /\ Restarted /\ (Unusable(file) \/ probe'.error) => last_call_time' = 0
       /\ \A p \in PollIds :
            /\ polls[p].pc = "save" /\ Runs(p) /\ ~Restarted
                  /\ file' # save_last_call_time(file, polls[p].current_time, TRUE)
                  => /\ last_call_time = polls[p].current_time
                     /\ last_call_time' = last_call_time
                     /\ polls'[p].pc = "post_success"
            /\ polls[p].pc = "post_success" /\ polls'[p].posted # polls[p].posted /\ ~Restarted
                  => polls'[p].posted = "success"
       /\ \A h \in Handlers :
            /\ handlers[h].pc = "check_cooldown"
            /\ Steps(h)
            /\ ~Restarted
            /\ handlers[h].current_time < last_call_time + CALL_COOLDOWN_SECONDS
            => handlers'[h].pc = "say_cooldown"]_vars

\* the process started with a file it could not use; a call succeeded, its
\* timestamp could not be saved, the confirmation has been posted, and a request
\* is about to be answered with the wait message
C18_Witness ==
    /\ probe.error
    /\ Unusable(file)
    /\ last_call_time = executed_at
    /\ executed_at > StartTime
    /\ \E p \in PollIds : polls[p].pc = "finally" /\ polls[p].posted = "success"
    /\ \E h \in Handlers : handlers[h].pc = "say_cooldown"

\* the handler h was given an event that has a subtype or a text classified none
DroppedBy(h) ==
    /\ received' = received + 1
    /\ probe'.kind = "event"
    /\ probe'.handler = h
    /\ \/ probe'.event.subtype
       \/ ~probe'.event.text.cold /\ ~probe'.event.text.hot

\* C19: when handle_message is given an event that has a subtype, or a text that is
\* classified none, the handler returns at once: it does not go on to a post or to
\* _start_poll, no poll is posted or scheduled, and self.active_poll,
\* self.last_call_time and the file stay as they are.
C19_IgnoredMessageChangesNothing ==
    [][\A h \in Handlers :
          DroppedBy(h) =>
              /\ handlers'[h] = IdleHandler
              /\ UNCHANGED <<handlers, active_poll, polls, next_ts, last_call_time, file>>]_vars

\* an event with a subtype whose text asks for warmth was the last one delivered,
\* and no handler is running
C19_Witness ==
    /\ probe.kind = "event"
    /\ probe.event.subtype
    /\ probe.event.text.cold
    /\ received = 1
    /\ \A h \in Handlers : handlers[h] = IdleHandler
    /\ active_poll = NoPoll

\* C20: while the timer thread of a poll has been started and has not ended,
\* self.active_poll is not None.
C20_SlotHeldWhilePollOpen ==
    \A p \in PollIds : Open(p) => active_poll # NoPoll

\* C21: a poll for which the "Error processing poll results" message has been
\* posted has had no successful call, and its timer thread has not written
\* self.last_call_time.
C21_ErrorReportExcludesDispatch ==
    \A p \in PollIds :
        polls[p].posted = "error" =>
            /\ polls[p].result # "success"
            /\ ~polls[p].recorded

====
